---- MODULE Spec2Model ----
(***************************************************************************)
(* Batched beam-search driver of negotiation/neural/generator.py           *)
(* (Generator.generate_batch and Generator._from_beam) together with the   *)
(* Hypothesis Beam it drives.  The driver is translated from the source.   *)
(* The Beam class (neural/beam.py) and the decoder state (beam_update) are *)
(* called by the driver but are not part of the source tree at hand; they  *)
(* are modelled from sections 3 and 4 of the specification.                *)
(*                                                                         *)
(* Indices are 0-based as in the Python source: beams 0..batch_size-1,     *)
(* slots 0..beam_size-1, token ids 0..vocab_size-1, steps 0..n.            *)
(* Log-probabilities are integers; NegInf stands for negative infinity.    *)
(***************************************************************************)
EXTENDS Integers, Sequences, FiniteSets, TLC

\* ---------------------------------------------------------------- bounds
MaxBatch == 2
MaxBeam == 3
MaxNBest == 2
MaxLen == 3
MaxMinLen == 2
\* batch_size * beam_size * max_length <= MaxCells
MaxCells == 8
VocabSize == 3
\* bounds of the calls that are followed from the start of generate_batch
MaxPrefix == 3
MaxTgtLen == 3
MaxCallCells == 4

\* ------------------------------------------------------------ vocabulary
PAD == 0
BOS == 1
EOS == 2
\* the words of the end-to-end scenario
HELLO == 3
BYE == 4
\* log-probabilities the abstract model can emit for one token
LogProbs == {-1, -2}
NegInf == -1000

VARIABLES
    batch_size,   \* batch.size
    beam_size,    \* Generator.beam_size
    n_best,       \* Generator.n_best
    max_length,   \* Generator.max_length
    min_length,   \* Generator.min_length
    beam,         \* the list of Beam objects, one per batch item
    dec_states,   \* decoder state, one entry per flat (slot, batch item) position
    i,            \* loop variable of "for i in range(self.max_length)"
    j,            \* loop variable of "for j, b in enumerate(beam)"
    out,          \* the slice out[:, j] consumed by the latest b.advance
    pc,           \* position in generate_batch
    n_decode,     \* number of calls of the single-step decoder so far
    broke,        \* whether the loop was left through "break"
    ret,          \* the value returned by _from_beam
    gt_prefix,    \* argument gt_prefix of generate_batch
    decoder_tokens, \* batch.context_data['decoder_tokens'], one word list per item
    prev_turns,   \* hasattr(batch, 'prev_turns')
    n_encode,     \* number of calls of the encoder
    n_prefix,     \* number of decoder calls on the forced prefix
    n_repeat,     \* number of calls of repeat_beam_size_times
    vocab_size,   \* len(vocab), the width of the model's output rows
    logp,         \* history: per beam, the summed log-probabilities of the
                  \* tokens on the path of each current slot (cur) and of
                  \* each hypothesis that ended in end-of-sequence (fin)
    \* Trainer.train_epoch (trainer.py)
    grad_accum_count, \* Trainer.grad_accum_count
    train_iter,   \* what the iterator has yet to yield
    num_batches,  \* the first element of the iterator
    true_batchs,  \* the pending list of batches
    accum,        \* batches appended since the last group
    groups,       \* history: the lists passed to _gradient_accumulation
    optim_steps,  \* history: the batches on which optim.step() was called
    tpc,          \* position in train_epoch
    \* scripts/generate_dataset.py
    scenario_offset,    \* args.scenario_offset
    n_scenarios,        \* len(scenario_db.scenarios_list)
    train_max_examples, \* args.train_max_examples
    test_max_examples,  \* args.test_max_examples
    num_examples,       \* the global counter num_examples
    examples,     \* the list examples of the running generate_examples call
    loop_i,       \* loop variable of "for i in range(max_examples)"
    written,      \* what has been written to each examples path
    generated,    \* history: the scenario index of every example simulated
    gpc           \* position in the script

call_vars == <<gt_prefix, decoder_tokens, prev_turns, n_encode, n_prefix, n_repeat,
               vocab_size>>

Vocab == 0 .. (vocab_size - 1)

vars == <<batch_size, beam_size, n_best, max_length, min_length, beam,
          dec_states, i, j, out, pc, n_decode, broke, ret, call_vars, logp,
          grad_accum_count, train_iter, num_batches, true_batchs, accum, groups,
          optim_steps, tpc,
          scenario_offset, n_scenarios, train_max_examples, test_max_examples,
          num_examples, examples, loop_i, written, generated, gpc>>

train_vars == <<grad_accum_count, train_iter, num_batches, true_batchs, accum,
                groups, optim_steps, tpc>>

data_vars == <<scenario_offset, n_scenarios, train_max_examples, test_max_examples,
               num_examples, examples, loop_i, written, generated, gpc>>

\* no train_epoch call and no dataset script is running
TrainIdle ==
    /\ grad_accum_count = 1
    /\ train_iter = <<>>
    /\ num_batches = 0
    /\ true_batchs = <<>>
    /\ accum = 0
    /\ groups = <<>>
    /\ optim_steps = <<>>
    /\ tpc = "idle"

DataIdle ==
    /\ scenario_offset = 0
    /\ n_scenarios = 1
    /\ train_max_examples = 0
    /\ test_max_examples = 0
    /\ num_examples = 0
    /\ examples = <<>>
    /\ loop_i = 0
    /\ written = <<>>
    /\ generated = <<>>
    /\ gpc = "idle"

Slots == 0 .. (beam_size - 1)
Beams == 0 .. (batch_size - 1)

\* ----------------------------------------------------------------- words
\* a word of the vocabulary and its id, vocab.word_to_ind[word]
Word(id) == <<"word", id>>

WordToInd(word) == word[2]

\* ------------------------------------------------------------------ Beam
AddScore(a, b) == IF a = NegInf \/ b = NegInf THEN NegInf ELSE a + b

\* Scorer: the default policy returns the raw cumulative log-probability.
Scorer(score, length) == score

NewBeam(size, bos) ==
    [tokens       |-> [t \in {0} |-> [s \in 0 .. (size - 1) |-> IF s = 0 THEN bos ELSE PAD]],
     backpointers |-> <<>>,
     scores       |-> [s \in 0 .. (size - 1) |-> 0],
     finished     |-> <<>>,
     done_early   |-> FALSE]

StepCount(b) == Len(b.backpointers)

CurrentTokens(b) == b.tokens[StepCount(b)]

CurrentOrigin(b) == b.backpointers[StepCount(b)]

DoneAllSlots(b) ==
    /\ StepCount(b) >= 1
    /\ \A s \in DOMAIN CurrentTokens(b) : CurrentTokens(b)[s] = EOS

\* done(): the top slot selected end-of-sequence at some step, or every slot
\* of the latest step did (the seed of a fresh beam is not a selection)
Done(b) ==
    \/ b.done_early
    \/ /\ StepCount(b) >= 1
       /\ \A s \in DOMAIN CurrentTokens(b) : CurrentTokens(b)[s] = EOS

RanksBeforeHighIndex(flat, c, d) ==
    \/ flat[c] > flat[d]
    \/ flat[c] = flat[d] /\ c >= d

\* c ranks before d: higher score, ties broken by the lower flattened index
RanksBefore(flat, c, d) ==
    \/ flat[c] > flat[d]
    \/ flat[c] = flat[d] /\ c <= d

RECURSIVE TopKFrom(_, _, _)
TopKFrom(flat, remaining, k) ==
    IF k = 0 \/ remaining = {}
    THEN <<>>
    ELSE LET best == CHOOSE c \in remaining :
                         \A d \in remaining : RanksBefore(flat, c, d)
         IN  <<best>> \o TopKFrom(flat, remaining \ {best}, k - 1)

TopK(flat, k) == TopKFrom(flat, DOMAIN flat, k)

\* end-of-sequence is forced to negative infinity before min_length steps
MaskEos(b, word_probs) ==
    [s \in DOMAIN word_probs |->
        [w \in Vocab |->
            IF StepCount(b) < min_length /\ w = EOS
            THEN NegInf
            ELSE word_probs[s][w]]]

\* the flattened candidate scores of one advance
FlatScores(b, word_probs) ==
    LET masked == MaskEos(b, word_probs)
        cur    == CurrentTokens(b)
    IN  IF StepCount(b) = 0
        THEN [c \in 0 .. (vocab_size - 1) |-> masked[0][c]]
        ELSE [c \in 0 .. (Cardinality(DOMAIN cur) * vocab_size - 1) |->
                 IF cur[c \div vocab_size] = EOS
                 THEN NegInf
                 ELSE AddScore(b.scores[c \div vocab_size],
                               masked[c \div vocab_size][c % vocab_size])]

OriginOf(c) == c \div vocab_size

TokenOf(c) == c % vocab_size

RECURSIVE NewlyFinished(_, _, _, _)
NewlyFinished(toks, scs, step, s) ==
    IF s \notin DOMAIN toks
    THEN <<>>
    ELSE (IF toks[s] = EOS
          THEN <<[score |-> Scorer(scs[s], step), step |-> step, slot |-> s]>>
          ELSE <<>>) \o NewlyFinished(toks, scs, step, s + 1)

NewScoresByIndex(flat, best, size) == [s \in 0 .. (size - 1) |-> flat[s]]

\* the chosen top-k scores, in rank order
NewScores(flat, best, size) == [s \in 0 .. (size - 1) |-> flat[best[s + 1]]]

FinishedAfterOverwrite(b, toks, scs, step) == NewlyFinished(toks, scs, step, 0)

\* finished, extended by the slots that selected end-of-sequence at this step
FinishedAfter(b, toks, scs, step) == b.finished \o NewlyFinished(toks, scs, step, 0)

Advance(b, word_probs) ==
    LET size == Cardinality(DOMAIN b.scores)
        flat == FlatScores(b, word_probs)
        best == TopK(flat, size)
        step == StepCount(b) + 1
        toks == [s \in 0 .. (size - 1) |-> TokenOf(best[s + 1])]
        bps  == [s \in 0 .. (size - 1) |-> OriginOf(best[s + 1])]
        scs  == NewScores(flat, best, size)
    IN  [tokens       |-> [t \in 0 .. step |-> IF t = step THEN toks ELSE b.tokens[t]],
         backpointers |-> Append(b.backpointers, bps),
         scores       |-> scs,
         finished     |-> FinishedAfter(b, toks, scs, step),
         done_early   |-> b.done_early \/ toks[0] = EOS]

\* the log-probability sums before the first advance
NewLogp(size) == [cur |-> [s \in 0 .. (size - 1) |-> 0], fin |-> <<>>]

\* the log-probability sums after the advance that turned a beam into nb
LogpAfter(lp, nb, word_probs) ==
    LET n    == StepCount(nb)
        cur  == [s \in DOMAIN lp.cur |->
                    lp.cur[nb.backpointers[n][s]]
                        + word_probs[nb.backpointers[n][s]][nb.tokens[n][s]]]
        ends == {<<n, s>> : s \in {r \in DOMAIN lp.cur : nb.tokens[n][r] = EOS}}
    IN  [cur |-> cur,
         fin |-> [e \in (DOMAIN lp.fin) \cup ends |->
                     IF e \in DOMAIN lp.fin THEN lp.fin[e] ELSE cur[e[2]]]]

\* live slots at the latest step, best score first (slot order is score order)
RECURSIVE LiveSlots(_, _)
LiveSlots(b, s) ==
    IF s \notin DOMAIN CurrentTokens(b)
    THEN <<>>
    ELSE (IF CurrentTokens(b)[s] # EOS THEN <<s>> ELSE <<>>) \o LiveSlots(b, s + 1)

ForceFinished(b, s) ==
    [score |-> Scorer(b.scores[s], StepCount(b)), step |-> StepCount(b), slot |-> s]

\* pad finished with the best live slots until it holds minimum entries
PadFinished(b, minimum) ==
    LET live == LiveSlots(b, 0)
        need == minimum - Len(b.finished)
        n    == IF need <= 0 THEN 0 ELSE IF need <= Len(live) THEN need ELSE Len(live)
    IN  b.finished \o [x \in 1 .. n |-> ForceFinished(b, live[x])]

\* stable insertion into a list ordered by score, best first
RECURSIVE InsertByScore(_, _)
InsertByScore(e, sorted) ==
    IF sorted = <<>>
    THEN <<e>>
    ELSE IF Head(sorted).score >= e.score
         THEN <<Head(sorted)>> \o InsertByScore(e, Tail(sorted))
         ELSE <<e>> \o sorted

RECURSIVE SortByScore(_)
SortByScore(list) ==
    IF list = <<>>
    THEN <<>>
    ELSE InsertByScore(list[Len(list)], SortByScore(SubSeq(list, 1, Len(list) - 1)))

SortFinished(b, minimum) == SortByScore(PadFinished(b, minimum))

\* tokens of the hypothesis ending in slot s of step t, in forward order;
\* <<-1>> stands for an index error
RECURSIVE GetHyp(_, _, _)
GetHyp(b, t, s) ==
    IF t = 0
    THEN <<>>
    ELSE IF t \notin DOMAIN b.backpointers \/ s \notin DOMAIN b.backpointers[t]
         THEN <<-1>>
         ELSE Append(GetHyp(b, t - 1, b.backpointers[t][s]), b.tokens[t][s])

\* --------------------------------------------------------- decoder state
\* flat position of slot s of batch item jj (beam-major layout)
Flat(s, jj) == s * batch_size + jj

\* dec_states.repeat_beam_size_times(beam_size)
RepeatBeamSizeTimes(states, size) ==
    [p \in 0 .. (batch_size * size - 1) |-> states[p % batch_size]]

InpBatchMajor ==
    [p \in 0 .. (batch_size * beam_size - 1) |->
        CurrentTokens(beam[p \div beam_size])[p % beam_size]]

\* torch.stack([b.get_current_state() for b in beam]).t().contiguous().view(1, -1)
Inp ==
    [p \in 0 .. (batch_size * beam_size - 1) |->
        CurrentTokens(beam[p % batch_size])[p \div batch_size]]

\* the single-step decoder: every position's state absorbs its input token
Decoder(inp, states) ==
    [p \in DOMAIN states |-> [states[p] EXCEPT !.fed = Append(@, inp[p])]]

\* dec_states.beam_update(idx, positions, beam_size)
BeamUpdate(states, idx, positions, size) ==
    [p \in DOMAIN states |->
        IF p % batch_size = idx
        THEN states[Flat(positions[p \div batch_size], idx)]
        ELSE states[p]]

\* ---------------------------------------------------------------- driver
RangeExhaustedOneLate == i >= max_length + 1

RangeExhausted == i >= max_length

AllDone == \A b \in Beams : Done(beam[b])

ReindexStepSkipped(states, jj, b) == states

ReindexStepFirstItem(states, jj, b) == BeamUpdate(states, 0, CurrentOrigin(b), beam_size)

\* dec_states.beam_update(j, b.get_current_origin(), beam_size)
ReindexStep(states, jj, b) == BeamUpdate(states, jj, CurrentOrigin(b), beam_size)

HypOfSwapped(b, e) == GetHyp(b, e.slot, e.step)

\* for (times, k) in ks: hyp, att = b.get_hyp(times, k)
HypOf(b, e) == GetHyp(b, e.step, e.slot)

SortedOfBeamSize(b) == SortFinished(b, beam_size)

\* scores, ks = b.sort_finished(minimum=n_best)
SortedOf(b) == SortFinished(b, n_best)

TruncateNothing(ks) == ks

TruncateOneShort(ks) == SubSeq(ks, 1, IF Len(ks) < n_best - 1 THEN Len(ks) ELSE n_best - 1)

\* ks[:n_best]
Truncate(ks) == SubSeq(ks, 1, IF Len(ks) < n_best THEN Len(ks) ELSE n_best)

\* Generator.__init__ options and the state of generate_batch before its
\* loop: every beam is seeded with the begin-of-sequence id, and the beam
\* width does not exceed the vocabulary (the first top-k reads one row only).
Init ==
    /\ batch_size \in 1 .. MaxBatch
    /\ beam_size \in 1 .. MaxBeam
    /\ beam_size <= VocabSize
    /\ n_best \in 1 .. MaxNBest
    /\ max_length \in 0 .. MaxLen
    /\ min_length \in 0 .. MaxMinLen
    /\ batch_size * beam_size * max_length <= MaxCells
    /\ beam = [b \in Beams |-> NewBeam(beam_size, BOS)]
    /\ dec_states = RepeatBeamSizeTimes([b \in Beams |-> [src |-> b, fed |-> <<>>]],
                                        beam_size)
    /\ i = 0
    /\ j = 0
    /\ out = <<>>
    /\ pc = "loop"
    /\ n_decode = 0
    /\ broke = FALSE
    /\ ret = [predictions |-> <<>>, scores |-> <<>>]
    /\ gt_prefix = 1
    /\ decoder_tokens = [b \in Beams |-> <<Word(BOS)>>]
    /\ prev_turns = TRUE
    /\ n_encode = 1
    /\ n_prefix = 0
    /\ n_repeat = 1
    /\ vocab_size = VocabSize
    /\ logp = [b \in Beams |-> NewLogp(beam_size)]
    /\ TrainIdle
    /\ DataIdle

\* range(self.max_length) is exhausted
LoopExit ==
    /\ pc = "loop"
    /\ RangeExhausted
    /\ pc' = "extract"
    /\ UNCHANGED <<batch_size, beam_size, n_best, max_length, min_length, beam,
                   dec_states, i, j, out, n_decode, broke, ret>>
    /\ UNCHANGED call_vars
    /\ UNCHANGED logp
    /\ UNCHANGED <<train_vars, data_vars>>

\* if all((b.done() for b in beam)): break
LoopBreak ==
    /\ pc = "loop"
    /\ ~RangeExhausted
    /\ AllDone
    /\ pc' = "extract"
    /\ broke' = TRUE
    /\ UNCHANGED <<batch_size, beam_size, n_best, max_length, min_length, beam,
                   dec_states, i, j, out, n_decode, ret>>
    /\ UNCHANGED call_vars
    /\ UNCHANGED logp
    /\ UNCHANGED <<train_vars, data_vars>>

\* gather the current tokens and run the decoder one step
DecodeStep ==
    /\ pc = "loop"
    /\ ~RangeExhausted
    /\ ~AllDone
    /\ dec_states' = Decoder(Inp, dec_states)
    /\ n_decode' = n_decode + 1
    /\ j' = 0
    /\ pc' = "advance"
    /\ UNCHANGED <<batch_size, beam_size, n_best, max_length, min_length, beam,
                   i, out, broke, ret>>
    /\ UNCHANGED call_vars
    /\ UNCHANGED logp
    /\ UNCHANGED <<train_vars, data_vars>>

\* The slices out[:, j] the abstract model can hand to beam b.  A row the beam
\* never reads (rows other than row 0 on the first step, rows of slots whose
\* token is end-of-sequence afterwards) is fixed to its first value: its
\* content cannot change what the beam does.
RowIsRead(b, s) ==
    IF StepCount(b) = 0 THEN s = 0 ELSE CurrentTokens(b)[s] # EOS

WordProbs(b) ==
    {wp \in [Slots -> [Vocab -> LogProbs]] :
        \A s \in Slots : RowIsRead(b, s) \/ wp[s] = [w \in Vocab |-> -1]}

\* one iteration of "for j, b in enumerate(beam)": advance, then beam_update
AdvanceBeam ==
    /\ pc = "advance"
    /\ \E word_probs \in WordProbs(beam[j]) :
           /\ out' = word_probs
           /\ beam' = [beam EXCEPT ![j] = Advance(@, word_probs)]
           /\ logp' = [logp EXCEPT ![j] = LogpAfter(@, beam'[j], word_probs)]
    /\ dec_states' = ReindexStep(dec_states, j, beam'[j])
    /\ IF j + 1 < batch_size
       THEN /\ j' = j + 1
            /\ UNCHANGED <<i, pc>>
       ELSE /\ i' = i + 1
            /\ pc' = "loop"
            /\ UNCHANGED j
    /\ UNCHANGED <<batch_size, beam_size, n_best, max_length, min_length,
                   n_decode, broke, ret>>
    /\ UNCHANGED call_vars
    /\ UNCHANGED <<train_vars, data_vars>>

\* ret = self._from_beam(beam)
FromBeam ==
    /\ pc = "extract"
    /\ beam' = [b \in Beams |-> [beam[b] EXCEPT !.finished = SortedOf(beam[b])]]
    /\ ret' = [predictions |->
                   [b \in Beams |->
                       LET ks == Truncate(beam'[b].finished)
                       IN  [x \in 1 .. Len(ks) |-> HypOf(beam[b], ks[x])]],
               scores |->
                   [b \in Beams |->
                       [x \in 1 .. Len(beam'[b].finished) |-> beam'[b].finished[x].score]]]
    /\ pc' = "done"
    /\ UNCHANGED <<batch_size, beam_size, n_best, max_length, min_length,
                   dec_states, i, j, out, n_decode, broke>>
    /\ UNCHANGED call_vars
    /\ UNCHANGED logp
    /\ UNCHANGED <<train_vars, data_vars>>

Next ==
    \/ LoopExit
    \/ LoopBreak
    \/ DecodeStep
    \/ AdvanceBeam
    \/ FromBeam

Spec == Init /\ [][Next]_vars

\* ------------------------------------------- generate_batch from its start
\* what indexing a list out of range yields, and the result of a get_bos
\* call that raised it
IndexError == <<"IndexError", -1>>

Raised == -1

\* Python's tgt_sent[n] for n >= 0 (0-based)
Item(tgt_sent, n) == IF n + 1 \in DOMAIN tgt_sent THEN tgt_sent[n + 1] ELSE IndexError

GetBosNextPosition(b) ==
    LET tgt_sent == decoder_tokens[b]
        bos      == IF tgt_sent = <<>> THEN Word(PAD) ELSE Item(tgt_sent, gt_prefix)
    IN  IF bos = IndexError THEN Raised ELSE WordToInd(bos)

\* get_bos(b)
GetBos(b) ==
    LET tgt_sent == decoder_tokens[b]
        bos      == IF tgt_sent = <<>> THEN Word(PAD) ELSE Item(tgt_sent, gt_prefix - 1)
    IN  IF bos = IndexError THEN Raised ELSE WordToInd(bos)

\* batch.targets: the items' token ids by position, padded to the longest item
TargetRows ==
    CHOOSE n \in 0 .. MaxTgtLen :
        /\ \A b \in Beams : Len(decoder_tokens[b]) <= n
        /\ n > 0 => \E b \in Beams : Len(decoder_tokens[b]) = n

Targets ==
    [t \in 1 .. TargetRows |->
        [b \in Beams |->
            IF t \in DOMAIN decoder_tokens[b] THEN WordToInd(decoder_tokens[b][t]) ELSE PAD]]

\* batch.targets[:gt_prefix-1]
PrefixInput ==
    SubSeq(Targets, 1, IF gt_prefix - 1 <= TargetRows THEN gt_prefix - 1 ELSE TargetRows)

\* the decoder run over several input rows
RECURSIVE DecoderRows(_, _)
DecoderRows(rows, states) ==
    IF rows = <<>>
    THEN states
    ELSE DecoderRows(Tail(rows), Decoder(Head(rows), states))

\* a word list of n words
TgtSent(shift, b, n) == [t \in 1 .. n |-> Word((shift + b + t) % VocabSize)]

\* a call of generate_batch(batch, gt_prefix) on a Generator with the default
\* n_best and min_length
InitCall ==
    /\ batch_size \in 1 .. MaxBatch
    /\ beam_size \in 1 .. MaxBeam
    /\ beam_size <= VocabSize
    /\ n_best = 1
    /\ max_length \in 0 .. MaxLen
    /\ min_length = 0
    /\ batch_size * beam_size * max_length <= MaxCallCells
    /\ gt_prefix \in 1 .. MaxPrefix
    /\ \E shift \in {0, 1} :
           \E lens \in [Beams -> 0 .. MaxTgtLen] :
               decoder_tokens = [b \in Beams |-> TgtSent(shift, b, lens[b])]
    /\ prev_turns \in BOOLEAN
    /\ beam = <<>>
    /\ dec_states = <<>>
    /\ i = 0
    /\ j = 0
    /\ out = <<>>
    /\ pc = "beams"
    /\ n_decode = 0
    /\ broke = FALSE
    /\ ret = [predictions |-> <<>>, scores |-> <<>>]
    /\ n_encode = 0
    /\ n_prefix = 0
    /\ n_repeat = 0
    /\ vocab_size = VocabSize
    /\ logp = [b \in Beams |-> NewLogp(beam_size)]
    /\ TrainIdle
    /\ DataIdle

\* beam = [Beam(beam_size, ..., bos=get_bos(b), ...) for b in range(batch_size)]
ConstructBeams ==
    /\ pc = "beams"
    /\ IF \E b \in Beams : GetBos(b) = Raised
       THEN /\ pc' = "aborted"
            /\ UNCHANGED beam
       ELSE /\ beam' = [b \in Beams |-> NewBeam(beam_size, GetBos(b))]
            /\ pc' = "encode"
    /\ UNCHANGED <<batch_size, beam_size, n_best, max_length, min_length,
                   dec_states, i, j, out, n_decode, broke, ret, call_vars>>
    /\ UNCHANGED logp
    /\ UNCHANGED <<train_vars, data_vars>>

\* the encoder and init_decoder_state
RunEncoder ==
    /\ pc = "encode"
    /\ dec_states' = [b \in Beams |-> [src |-> b, fed |-> <<>>]]
    /\ n_encode' = n_encode + 1
    /\ pc' = "prefix"
    /\ UNCHANGED <<batch_size, beam_size, n_best, max_length, min_length, beam,
                   i, j, out, n_decode, broke, ret,
                   gt_prefix, decoder_tokens, prev_turns, n_prefix, n_repeat,
                   vocab_size>>
    /\ UNCHANGED logp
    /\ UNCHANGED <<train_vars, data_vars>>

\* (1.1) Go over forced prefix.
ForcedPrefix ==
    /\ pc = "prefix"
    /\ IF gt_prefix > 1
       THEN /\ dec_states' = DecoderRows(PrefixInput, dec_states)
            /\ n_prefix' = n_prefix + 1
       ELSE UNCHANGED <<dec_states, n_prefix>>
    /\ pc' = "repeat"
    /\ UNCHANGED <<batch_size, beam_size, n_best, max_length, min_length, beam,
                   i, j, out, n_decode, broke, ret,
                   gt_prefix, decoder_tokens, prev_turns, n_encode, n_repeat,
                   vocab_size>>
    /\ UNCHANGED logp
    /\ UNCHANGED <<train_vars, data_vars>>

\* (2) Repeat src objects beam_size times.  predict_with_context is only
\* assigned when the batch has prev_turns; reading it otherwise raises.
RepeatStates ==
    /\ pc = "repeat"
    /\ IF prev_turns
       THEN /\ dec_states' = RepeatBeamSizeTimes(dec_states, beam_size)
            /\ n_repeat' = n_repeat + 1
            /\ pc' = "loop"
       ELSE /\ pc' = "aborted"
            /\ UNCHANGED <<dec_states, n_repeat>>
    /\ UNCHANGED <<batch_size, beam_size, n_best, max_length, min_length, beam,
                   i, j, out, n_decode, broke, ret,
                   gt_prefix, decoder_tokens, prev_turns, n_encode, n_prefix,
                   vocab_size>>
    /\ UNCHANGED logp
    /\ UNCHANGED <<train_vars, data_vars>>

NextCall ==
    \/ ConstructBeams
    \/ RunEncoder
    \/ ForcedPrefix
    \/ RepeatStates
    \/ Next

CallSpec == InitCall /\ [][NextCall]_vars

\* ------------------------------------------------- the end-to-end scenario
\* beam width 3, vocabulary {PAD, BOS, EOS, hello, bye}, min_length 1,
\* max_length up to 4
ScenarioBeam == 3
ScenarioVocab == 5
ScenarioMinLen == 1
ScenarioMaxLen == 4

ScenarioInit ==
    /\ batch_size = 1
    /\ beam_size = ScenarioBeam
    /\ vocab_size = ScenarioVocab
    /\ n_best \in 1 .. (ScenarioBeam + 1)
    /\ max_length \in 2 .. ScenarioMaxLen
    /\ min_length = ScenarioMinLen
    /\ beam = [b \in Beams |-> NewBeam(beam_size, BOS)]
    /\ dec_states = RepeatBeamSizeTimes([b \in Beams |-> [src |-> b, fed |-> <<>>]],
                                        beam_size)
    /\ i = 0
    /\ j = 0
    /\ out = <<>>
    /\ pc = "loop"
    /\ n_decode = 0
    /\ broke = FALSE
    /\ ret = [predictions |-> <<>>, scores |-> <<>>]
    /\ gt_prefix = 1
    /\ decoder_tokens = [b \in Beams |-> <<Word(BOS)>>]
    /\ prev_turns = TRUE
    /\ n_encode = 1
    /\ n_prefix = 0
    /\ n_repeat = 1
    /\ logp = [b \in Beams |-> NewLogp(beam_size)]
    /\ TrainIdle
    /\ DataIdle

\* a row that rates word w above every other word
Favors(row, w) == \A v \in Vocab : row[v] = IF v = w THEN -1 ELSE -2

\* the model outputs of the scenario: the first step favors hello, the second
\* step favors end-of-sequence after hello
ScenarioProbs(b) ==
    {wp \in WordProbs(b) :
        /\ StepCount(b) = 0 => Favors(wp[0], HELLO)
        /\ StepCount(b) = 1 =>
               \A s \in Slots : CurrentTokens(b)[s] = HELLO => Favors(wp[s], EOS)}

\* one iteration of "for j, b in enumerate(beam)" on the scenario's outputs
ScenarioAdvance ==
    /\ pc = "advance"
    /\ \E word_probs \in ScenarioProbs(beam[j]) :
           /\ out' = word_probs
           /\ beam' = [beam EXCEPT ![j] = Advance(@, word_probs)]
           /\ logp' = [logp EXCEPT ![j] = LogpAfter(@, beam'[j], word_probs)]
    /\ dec_states' = ReindexStep(dec_states, j, beam'[j])
    /\ IF j + 1 < batch_size
       THEN /\ j' = j + 1
            /\ UNCHANGED <<i, pc>>
       ELSE /\ i' = i + 1
            /\ pc' = "loop"
            /\ UNCHANGED j
    /\ UNCHANGED <<batch_size, beam_size, n_best, max_length, min_length,
                   n_decode, broke, ret>>
    /\ UNCHANGED call_vars
    /\ UNCHANGED <<train_vars, data_vars>>

ScenarioNext ==
    \/ LoopExit
    \/ LoopBreak
    \/ DecodeStep
    \/ ScenarioAdvance
    \/ FromBeam

ScenarioSpec == ScenarioInit /\ [][ScenarioNext]_vars

\* ================================================================ claims

\* C1: the decoding loop runs the decoder at most max_length times and then
\* goes on to hypothesis extraction; it leaves the loop before max_length
\* steps exactly when every beam is done at the start of an iteration, and a
\* decode step is only started when some beam is not done.
C1_DecodingLoopBounded ==
    /\ n_decode <= max_length
    /\ pc # "done" => ENABLED Next
    /\ pc = "advance" /\ j = 0 => ~AllDone
    /\ pc \in {"extract", "done"} =>
           /\ broke <=> n_decode < max_length
           /\ broke => AllDone
           /\ ~broke => n_decode = max_length

C1_StoppedEarly ==
    /\ pc = "done"
    /\ broke
    /\ n_decode >= 1
    /\ n_decode < max_length

\* C2: the driver is never about to call advance on a beam whose done() is
\* already true.
C2_AdvanceOnlyOnLiveBeam ==
    pc = "advance" => ~Done(beam[j])

NoEosIn(b) ==
    \A t \in DOMAIN b.tokens : \A s \in DOMAIN b.tokens[t] : b.tokens[t][s] # EOS

TokenAt(b, e) == b.tokens[e.step][e.slot]

Smaller(a, b) == IF a <= b THEN a ELSE b

C5_NoEosBeforeMinLength ==
    \A b \in Beams :
        /\ \A t \in 1 .. StepCount(beam[b]) :
               t <= min_length => \A s \in Slots : beam[b].tokens[t][s] # EOS
        /\ \A x \in 1 .. Len(beam[b].finished) :
               TokenAt(beam[b], beam[b].finished[x]) = EOS =>
                   beam[b].finished[x].step > min_length

\* the walk from slot s of step t follows valid slot indices down to step 0
RECURSIVE ValidWalk(_, _, _)
ValidWalk(b, t, s) ==
    /\ s \in DOMAIN b.scores
    /\ \/ t = 0
       \/ /\ t \in 1 .. StepCount(b)
          /\ ValidWalk(b, t - 1, b.backpointers[t][s])

\* C6: for every (step, slot) recorded in finished, naturally or by forced
\* padding, get_hyp(step, slot) returns exactly step tokens, and the walk of
\* its backpointers passes only valid slots of the earlier steps down to
\* step 0; the predictions returned by _from_beam are these sequences.
C6_HypothesisLength ==
    \A b \in Beams :
        /\ \A x \in 1 .. Len(beam[b].finished) :
               LET e == beam[b].finished[x]
               IN  /\ ValidWalk(beam[b], e.step, e.slot)
                   /\ Len(GetHyp(beam[b], e.step, e.slot)) = e.step
                   /\ \A n \in 1 .. e.step :
                          GetHyp(beam[b], e.step, e.slot)[n] \in Vocab
        /\ pc = "done" =>
               \A x \in 1 .. Len(ret.predictions[b]) :
                   /\ Len(ret.predictions[b][x]) = beam[b].finished[x].step
                   /\ ret.predictions[b][x] =
                          GetHyp(beam[b], beam[b].finished[x].step, beam[b].finished[x].slot)

C6_LongHypothesisReturned ==
    /\ pc = "done"
    /\ \E b \in Beams :
           /\ beam_size >= 2
           /\ Len(ret.predictions[b]) = 2
           /\ Len(ret.predictions[b][1]) = 2
           /\ Len(ret.predictions[b][2]) = 1
           /\ beam[b].backpointers[2][beam[b].finished[1].slot] = 1

LiveAt(b, t) == Cardinality({s \in DOMAIN b.tokens[t] : b.tokens[t][s] # EOS})

\* C7 (as stated): the number of slots of a beam whose token is not
\* end-of-sequence never grows from one step to the next.
C7_LiveSlotsNonIncreasing ==
    \A b \in Beams :
        \A t \in 1 .. StepCount(beam[b]) :
            LiveAt(beam[b], t) <= LiveAt(beam[b], t - 1)

\* C7 (amended): what never shrinks as steps proceed is the record of finished
\* hypotheses: every advance keeps the entries of finished and only appends to
\* them, so their number is monotonically non-decreasing, and the number of
\* live slots stays within 0..k (it may grow again when a slot freed by
\* end-of-sequence is refilled by the child of another slot).
C7_FinishedNeverShrinks ==
    [][pc = "advance" =>
           \A b \in Beams :
               /\ Len(beam'[b].finished) >= Len(beam[b].finished)
               /\ SubSeq(beam'[b].finished, 1, Len(beam[b].finished)) = beam[b].finished
               /\ LiveAt(beam'[b], StepCount(beam'[b])) \in 0 .. beam_size
               /\ Len(beam'[j].finished) - Len(beam[j].finished)
                      = beam_size - LiveAt(beam'[j], StepCount(beam'[j]))]_vars

C7_LiveSlotRefilled ==
    \E b \in Beams :
        /\ StepCount(beam[b]) >= 2
        /\ LiveAt(beam[b], 2) > LiveAt(beam[b], 1)
        /\ Len(beam[b].finished) >= 2

\* the score of the candidate (origin slot, token) as advance must rate it
CandidateScore(b, word_probs, origin, token) ==
    IF StepCount(b) < min_length /\ token = EOS
    THEN NegInf
    ELSE IF StepCount(b) = 0
         THEN word_probs[0][token]
         ELSE IF CurrentTokens(b)[origin] = EOS \/ b.scores[origin] = NegInf
              THEN NegInf
              ELSE b.scores[origin] + word_probs[origin][token]

Outranks(flat, c, d) ==
    \/ flat[c] > flat[d]
    \/ flat[c] = flat[d] /\ c < d

SelectedIndex(nb, s) ==
    nb.backpointers[StepCount(nb)][s] * vocab_size + nb.tokens[StepCount(nb)][s]

\* C9: the selection of an advance is fixed by the model outputs alone: the
\* k selected candidates are listed in the strict order "higher score first,
\* on equal score the lower flattened index (origin slot, then token) first",
\* and every candidate left out comes after the last selected one in that
\* order, so two runs fed the same outputs select the same slots.
C9_TieBreakByIndex ==
    [][pc = "advance" =>
           LET b    == beam[j]
               nb   == beam'[j]
               flat == FlatScores(b, out')
           IN  /\ \A s, r \in Slots :
                      s < r => Outranks(flat, SelectedIndex(nb, s), SelectedIndex(nb, r))
               /\ \A d \in DOMAIN flat :
                      \/ \E s \in Slots : SelectedIndex(nb, s) = d
                      \/ Outranks(flat, SelectedIndex(nb, beam_size - 1), d)
               /\ \A s \in Slots : nb.scores[s] = flat[SelectedIndex(nb, s)]]_vars

C9_TieBroken ==
    /\ pc = "loop"
    /\ batch_size = 1
    /\ beam_size = 2
    /\ StepCount(beam[0]) = 2
    /\ out[0] = out[1]
    /\ beam[0].scores[0] = beam[0].scores[1]
    /\ beam[0].backpointers[1] = beam[0].backpointers[2]
    /\ beam[0].tokens[2][0] = 0
    /\ beam[0].tokens[2][1] = 1

\* the tokens of steps 0..t on the path ending in slot s of step t
RECURSIVE PathTokens(_, _, _)
PathTokens(b, t, s) ==
    IF t = 0
    THEN <<b.tokens[0][s]>>
    ELSE Append(PathTokens(b, t - 1, b.backpointers[t][s]), b.tokens[t][s])

\* C10: whenever a decoding step is complete for every beam, the decoder
\* state held for slot s of beam b belongs to batch item b and has absorbed
\* exactly the tokens on the backpointer path of slot s before its newest
\* token: the state's token history followed by the slot's current token is
\* the sequence reconstructed for the slot.
C10_StateMatchesHypothesis ==
    pc \in {"loop", "extract", "done"} =>
        \A b \in Beams : \A s \in Slots :
            /\ dec_states[Flat(s, b)].src = b
            /\ i = 0 => dec_states[Flat(s, b)].fed = <<>>
            /\ i > 0 =>
                   /\ Append(dec_states[Flat(s, b)].fed, CurrentTokens(beam[b])[s])
                          = PathTokens(beam[b], StepCount(beam[b]), s)
                   /\ Len(dec_states[Flat(s, b)].fed) = i

C10_StateFollowedReorder ==
    /\ pc = "loop"
    /\ batch_size = 2
    /\ beam_size = 2
    /\ i = 2
    /\ beam[1].backpointers[2][0] = 1
    /\ beam[1].backpointers[2][1] = 1
    /\ beam[0].backpointers[2][0] = 0
    /\ dec_states[Flat(0, 1)].fed # dec_states[Flat(0, 0)].fed

Last(seq) == seq[Len(seq)]

\* C11: the single-step decoder is called once per iteration, on the current
\* tokens of all beams, and only between iterations: when it is called every
\* beam has completed the same number of steps; within an iteration the beams
\* before j have advanced and had their state reindexed, the beams from j on
\* have done neither, and no further decoder call happens until j has passed
\* every beam.
C11_StepBarrier ==
    /\ pc = "loop" =>
           /\ n_decode = i
           /\ \A b \in Beams : StepCount(beam[b]) = i
    /\ pc = "advance" =>
           /\ n_decode = i + 1
           /\ j \in Beams
           /\ \A p \in DOMAIN dec_states : Len(dec_states[p].fed) = n_decode
           /\ \A b \in Beams : \A s \in Slots :
                  IF b < j
                  THEN /\ StepCount(beam[b]) = i + 1
                       /\ Last(dec_states[Flat(s, b)].fed)
                              = beam[b].tokens[i][beam[b].backpointers[i + 1][s]]
                  ELSE /\ StepCount(beam[b]) = i
                       /\ Last(dec_states[Flat(s, b)].fed) = beam[b].tokens[i][s]

C11_SecondBeamWaiting ==
    /\ pc = "advance"
    /\ batch_size = 2
    /\ beam_size = 2
    /\ i = 1
    /\ j = 1
    /\ beam[0].backpointers[2][0] = 1
    /\ beam[0].tokens[1][0] # beam[0].tokens[1][1]
    /\ StepCount(beam[1]) = 1

\* C12: once the beams have been constructed, every batch item has a Beam
\* whose seed is the id of PAD when the item's decoder token list is empty
\* and the id of its token at position gt_prefix-1 otherwise; constructing
\* the beams never aborts the call.
C12_SeededWithoutError ==
    pc # "beams" =>
        /\ DOMAIN beam = Beams
        /\ \A b \in Beams :
               beam[b].tokens[0][0] =
                   IF decoder_tokens[b] = <<>>
                   THEN PAD
                   ELSE WordToInd(decoder_tokens[b][gt_prefix])

\* C13 (as stated): in the scenario the top-ranked hypothesis returned is
\* [hello, EOS], and the result holds two further hypotheses with different
\* token sequences ranked below it.
C13_ScenarioThreeRanked ==
    pc = "done" /\ max_length = ScenarioMaxLen =>
        /\ Len(ret.predictions[0]) = 3
        /\ ret.predictions[0][1] = <<HELLO, EOS>>
        /\ ret.scores[0][1] > ret.scores[0][2]
        /\ ret.scores[0][2] >= ret.scores[0][3]
        /\ Cardinality({ret.predictions[0][x] : x \in 1 .. 3}) = 3

\* C13 (amended): in the scenario the top-ranked hypothesis returned is
\* [hello, EOS] of length 2 with a score strictly above every other one; with
\* n_best >= 3 the result holds exactly two further hypotheses with different
\* token sequences ranked below it, and with n_best < 3 it holds n_best
\* predictions in all.
C13_ScenarioTopHypothesis ==
    pc = "done" =>
        /\ Len(ret.predictions[0]) = Smaller(n_best, 3)
        /\ ret.predictions[0][1] = <<HELLO, EOS>>
        /\ \A x \in 2 .. Len(ret.scores[0]) : ret.scores[0][1] > ret.scores[0][x]
        /\ \A x, y \in 1 .. Len(ret.scores[0]) :
               x < y => ret.scores[0][x] >= ret.scores[0][y]
        /\ Cardinality({ret.predictions[0][x] : x \in 1 .. Len(ret.predictions[0])})
               = Len(ret.predictions[0])
        /\ n_best >= 3 => Len(ret.predictions[0]) = 3 /\ Len(ret.scores[0]) = 3

C13_ThreeHypothesesReturned ==
    /\ pc = "done"
    /\ n_best = 3
    /\ max_length = 4
    /\ n_decode = 2
    /\ ret.predictions[0][1] = <<HELLO, EOS>>
    /\ ret.predictions[0][2] = <<HELLO, PAD>>
    /\ ret.predictions[0][3] = <<HELLO, BOS>>
    /\ ret.scores[0] = <<-2, -3, -3>>

\* C14: after each advance past the first step, every slot's score is the
\* previous score of its origin slot plus the step's log-probability of its
\* token in the origin's row, the k selected (origin slot, token) pairs are
\* pairwise distinct, scores is in non-increasing order and no candidate left
\* out has a total above a selected one; on the first step every backpointer
\* is 0 and the tokens are k distinct candidates of row 0.
C14_SelectsKBest ==
    [][pc = "advance" =>
           LET b    == beam[j]
               nb   == beam'[j]
               n    == StepCount(nb)
               flat == FlatScores(b, out')
           IN  /\ \A s, r \in Slots :
                      s < r =>
                          /\ SelectedIndex(nb, s) # SelectedIndex(nb, r)
                          /\ nb.scores[s] >= nb.scores[r]
               /\ \A d \in DOMAIN flat :
                      \/ \E s \in Slots : SelectedIndex(nb, s) = d
                      \/ \A s \in Slots : flat[d] <= nb.scores[s]
               /\ n = 1 => \A s \in Slots : nb.backpointers[n][s] = 0
               /\ n > 1 =>
                      \A s \in Slots :
                          nb.scores[s] =
                              b.scores[nb.backpointers[n][s]]
                                  + out'[nb.backpointers[n][s]][nb.tokens[n][s]]]_vars

\* positions of end-of-sequence in a token sequence
EosPositions(hyp) == {n \in 1 .. Len(hyp) : hyp[n] = EOS}

\* C15: no slot selected by an advance descends from a slot whose token was
\* already end-of-sequence, and every hypothesis returned by generate_batch
\* holds end-of-sequence at most once and only as its last token.
C15_FinishedNeverExtended ==
    /\ \A b \in Beams :
           \A t \in 2 .. StepCount(beam[b]) :
               \A s \in Slots :
                   beam[b].tokens[t - 1][beam[b].backpointers[t][s]] # EOS
    /\ pc = "done" =>
           \A b \in Beams :
               \A x \in 1 .. Len(ret.predictions[b]) :
                   EosPositions(ret.predictions[b][x]) \subseteq {Len(ret.predictions[b][x])}

\* C16: right after an advance whose top slot (slot 0) selected
\* end-of-sequence, done() is true for that beam whatever the other slots
\* hold, and a beam whose done() is true keeps it true through every later
\* step of the search, also when it is advanced again.
C16_DoneEarlyAndForGood ==
    [][\A b \in Beams :
           /\ Done(beam[b]) => Done(beam'[b])
           /\ pc = "advance" /\ b = j /\ CurrentTokens(beam'[b])[0] = EOS
                  => Done(beam'[b])]_vars

C16_DoneWithLiveSlots ==
    /\ pc = "loop"
    /\ batch_size = 2
    /\ beam_size = 2
    /\ i = 2
    /\ beam[0].tokens[1][0] = EOS
    /\ beam[0].tokens[1][1] # EOS
    /\ beam[0].tokens[2][0] # EOS
    /\ beam[0].tokens[2][1] # EOS
    /\ Done(beam[0])
    /\ ~Done(beam[1])

\* the summed log-probabilities of the tokens on the path of the hypothesis
\* that entry e of beam b stands for
PathLogProb(b, e) ==
    IF <<e.step, e.slot>> \in DOMAIN logp[b].fin
    THEN logp[b].fin[<<e.step, e.slot>>]
    ELSE logp[b].cur[e.slot]

\* C17: for every batch item the scores returned are in non-increasing order
\* and each one equals the sum of the per-step log-probabilities of the
\* tokens along the backpointer path of the hypothesis it belongs to.
C17_RankedAndScored ==
    pc = "done" =>
        \A b \in Beams :
            /\ \A x, y \in 1 .. Len(ret.scores[b]) :
                   x < y => ret.scores[b][x] >= ret.scores[b][y]
            /\ \A x \in 1 .. Len(ret.scores[b]) :
                   ret.scores[b][x] = PathLogProb(b, beam[b].finished[x])

\* C18: the beam_update call made for batch item j leaves the decoder state
\* with the same positions, gives slot s of item j the state that slot
\* backpointers[s] of item j held before the call, and leaves the state of
\* every slot of every other batch item as it was; every position keeps
\* belonging to its own batch item.
C18_ReindexPerBeam ==
    [][pc = "advance" =>
           /\ DOMAIN dec_states' = DOMAIN dec_states
           /\ \A b \in Beams : \A s \in Slots :
                  /\ dec_states'[Flat(s, b)].src = b
                  /\ dec_states'[Flat(s, b)] =
                         IF b = j
                         THEN dec_states[Flat(CurrentOrigin(beam'[j])[s], j)]
                         ELSE dec_states[Flat(s, b)]]_vars

C18_OtherItemUntouched ==
    /\ pc = "advance"
    /\ batch_size = 2
    /\ beam_size = 2
    /\ i = 1
    /\ j = 1
    /\ CurrentOrigin(beam[0])[0] = 1
    /\ CurrentOrigin(beam[0])[1] = 1
    /\ dec_states[Flat(0, 0)] = dec_states[Flat(1, 0)]
    /\ dec_states[Flat(0, 1)] # dec_states[Flat(1, 1)]

\* the positions of generate_batch that follow the encoder call, the forced
\* prefix and the repetition of the decoder state
AfterEncoder == {"prefix", "repeat", "loop", "advance", "extract", "done"}

AfterPrefix == {"repeat", "loop", "advance", "extract", "done"}

AfterRepeat == {"loop", "advance", "extract", "done"}

PrefixCalls == IF gt_prefix > 1 THEN 1 ELSE 0

C20_ResultListsAligned ==
    pc = "done" =>
        \A b \in Beams :
            /\ Len(ret.predictions[b]) = Len(ret.scores[b])
            /\ \A x \in 1 .. Len(ret.predictions[b]) :
                   /\ ret.predictions[b][x] = HypOf(beam[b], beam[b].finished[x])
                   /\ ret.scores[b][x] = beam[b].finished[x].score

\* ---------------------------------------------------------------------------
\* Trainer.train_epoch (trainer.py)
\* ---------------------------------------------------------------------------

MaxAccum == 3
MaxTrainBatches == 5

\* the generator is not running
GeneratorIdle ==
    /\ batch_size = 1
    /\ beam_size = 1
    /\ n_best = 1
    /\ max_length = 0
    /\ min_length = 0
    /\ beam = <<>>
    /\ dec_states = <<>>
    /\ i = 0
    /\ j = 0
    /\ out = <<>>
    /\ pc = "idle"
    /\ n_decode = 0
    /\ broke = FALSE
    /\ ret = [predictions |-> <<>>, scores |-> <<>>]
    /\ gt_prefix = 1
    /\ decoder_tokens = <<>>
    /\ prev_turns = TRUE
    /\ n_encode = 0
    /\ n_prefix = 0
    /\ n_repeat = 0
    /\ vocab_size = VocabSize
    /\ logp = <<>>

\* the k-th batch the iterator yields after its first element
Batch(k) == <<"batch", k>>

\* Trainer.__init__ asserts grad_accum_count > 0; the iterator yields the number
\* of batches first and the batches after it
TrainInit ==
    /\ GeneratorIdle
    /\ DataIdle
    /\ grad_accum_count \in 1 .. MaxAccum
    /\ \E first \in 0 .. MaxTrainBatches, n \in 0 .. MaxTrainBatches :
           train_iter = <<first>> \o [k \in 1 .. n |-> Batch(k)]
    /\ num_batches = 0
    /\ true_batchs = <<>>
    /\ accum = 0
    /\ groups = <<>>
    /\ optim_steps = <<>>
    /\ tpc = "start"

\* _gradient_accumulation: for batch in true_batchs: ... self.optim.step()
RECURSIVE GradientAccumulation(_, _)
GradientAccumulation(batchs, steps) ==
    IF batchs = <<>> THEN steps
    ELSE GradientAccumulation(Tail(batchs), Append(steps, Head(batchs)))

\* if accum == self.grad_accum_count
GroupFull(acc) == acc = grad_accum_count

HasLeftoverWhenFull(batchs) == Len(batchs) >= grad_accum_count

\* if len(true_batchs) > 0
HasLeftover(batchs) == Len(batchs) > 0

\* true_batchs = []; accum = 0; num_batches = train_iter.next()
TakeNumBatches ==
    /\ tpc = "start"
    /\ num_batches' = Head(train_iter)
    /\ train_iter' = Tail(train_iter)
    /\ true_batchs' = <<>>
    /\ accum' = 0
    /\ tpc' = "for"
    /\ UNCHANGED <<grad_accum_count, groups, optim_steps>>
    /\ UNCHANGED <<batch_size, beam_size, n_best, max_length, min_length, beam,
                   dec_states, i, j, out, pc, n_decode, broke, ret, call_vars, logp>>
    /\ UNCHANGED data_vars

\* one pass of "for batch_idx, batch in enumerate(train_iter)"
TrainBatch ==
    /\ tpc = "for"
    /\ train_iter # <<>>
    /\ train_iter' = Tail(train_iter)
    /\ LET batchs == Append(true_batchs, Head(train_iter))
           acc == accum + 1
       IN  IF GroupFull(acc)
           THEN /\ groups' = Append(groups, batchs)
                /\ optim_steps' = GradientAccumulation(batchs, optim_steps)
                /\ true_batchs' = <<>>
                /\ accum' = 0
           ELSE /\ true_batchs' = batchs
                /\ accum' = acc
                /\ UNCHANGED <<groups, optim_steps>>
    /\ UNCHANGED <<grad_accum_count, num_batches, tpc>>
    /\ UNCHANGED <<batch_size, beam_size, n_best, max_length, min_length, beam,
                   dec_states, i, j, out, pc, n_decode, broke, ret, call_vars, logp>>
    /\ UNCHANGED data_vars

\* the iterator is exhausted: the leftover group, then return total_stats
TrainReturn ==
    /\ tpc = "for"
    /\ train_iter = <<>>
    /\ IF HasLeftover(true_batchs)
       THEN /\ groups' = Append(groups, true_batchs)
            /\ optim_steps' = GradientAccumulation(true_batchs, optim_steps)
            /\ true_batchs' = <<>>
       ELSE UNCHANGED <<groups, optim_steps, true_batchs>>
    /\ tpc' = "returned"
    /\ UNCHANGED <<grad_accum_count, train_iter, num_batches, accum>>
    /\ UNCHANGED <<batch_size, beam_size, n_best, max_length, min_length, beam,
                   dec_states, i, j, out, pc, n_decode, broke, ret, call_vars, logp>>
    /\ UNCHANGED data_vars

TrainNext == TakeNumBatches \/ TrainBatch \/ TrainReturn

TrainSpec == TrainInit /\ [][TrainNext]_vars

\* the groups passed to _gradient_accumulation, one after the other
RECURSIVE Flatten(_)
Flatten(gs) == IF gs = <<>> THEN <<>> ELSE Head(gs) \o Flatten(Tail(gs))

MaxOffset == 3
MaxScenarios == 3
MaxExamples == 3

\* num_examples = args.scenario_offset; the scenario list is not empty; an
\* example count of 0 stands for an absent or zero --train-max-examples /
\* --test-max-examples
DataInit ==
    /\ GeneratorIdle
    /\ TrainIdle
    /\ scenario_offset \in (0 - MaxOffset) .. MaxOffset
    /\ n_scenarios \in 1 .. MaxScenarios
    /\ train_max_examples \in 0 .. MaxExamples
    /\ test_max_examples \in 0 .. MaxExamples
    /\ num_examples = scenario_offset
    /\ examples = <<>>
    /\ loop_i = 0
    /\ written = <<>>
    /\ generated = <<>>
    /\ gpc = "train"

ScenarioIndexOfLoop(counter) == loop_i % n_scenarios

\* num_examples % len(scenario_db.scenarios_list)
ScenarioIndex(counter) == counter % n_scenarios

\* max_examples of the running generate_examples call
MaxExamplesOf(description) ==
    IF description = "train" THEN train_max_examples ELSE test_max_examples

\* the description argument of the running generate_examples call
Description == IF gpc = "train_loop" THEN "train" ELSE "test"

\* if args.train_max_examples: generate_examples('train', ...)
CallTrain ==
    /\ gpc = "train"
    /\ IF train_max_examples # 0
       THEN /\ gpc' = "train_loop"
            /\ examples' = <<>>
            /\ loop_i' = 0
       ELSE /\ gpc' = "test"
            /\ UNCHANGED <<examples, loop_i>>
    /\ UNCHANGED <<scenario_offset, n_scenarios, train_max_examples,
                   test_max_examples, num_examples, written, generated>>
    /\ UNCHANGED <<batch_size, beam_size, n_best, max_length, min_length, beam,
                   dec_states, i, j, out, pc, n_decode, broke, ret, call_vars, logp>>
    /\ UNCHANGED train_vars

\* if args.test_max_examples: generate_examples('test', ...)
CallTest ==
    /\ gpc = "test"
    /\ IF test_max_examples # 0
       THEN /\ gpc' = "test_loop"
            /\ examples' = <<>>
            /\ loop_i' = 0
       ELSE /\ gpc' = "end"
            /\ UNCHANGED <<examples, loop_i>>
    /\ UNCHANGED <<scenario_offset, n_scenarios, train_max_examples,
                   test_max_examples, num_examples, written, generated>>
    /\ UNCHANGED <<batch_size, beam_size, n_best, max_length, min_length, beam,
                   dec_states, i, j, out, pc, n_decode, broke, ret, call_vars, logp>>
    /\ UNCHANGED train_vars

\* one pass of "for i in range(max_examples)": the example simulated on a
\* scenario is represented by the index of that scenario
SimulateExample ==
    /\ gpc \in {"train_loop", "test_loop"}
    /\ loop_i < MaxExamplesOf(Description)
    /\ LET scenario == ScenarioIndex(num_examples)
       IN  /\ examples' = Append(examples, scenario)
           /\ generated' = Append(generated, scenario)
    /\ num_examples' = num_examples + 1
    /\ loop_i' = loop_i + 1
    /\ UNCHANGED <<scenario_offset, n_scenarios, train_max_examples,
                   test_max_examples, written, gpc>>
    /\ UNCHANGED <<batch_size, beam_size, n_best, max_length, min_length, beam,
                   dec_states, i, j, out, pc, n_decode, broke, ret, call_vars, logp>>
    /\ UNCHANGED train_vars

\* range(max_examples) is exhausted: json.dumps of the examples to examples_path
WriteExamples ==
    /\ gpc \in {"train_loop", "test_loop"}
    /\ loop_i >= MaxExamplesOf(Description)
    /\ written' = Append(written, [description |-> Description, examples |-> examples])
    /\ gpc' = IF gpc = "train_loop" THEN "test" ELSE "end"
    /\ UNCHANGED <<scenario_offset, n_scenarios, train_max_examples,
                   test_max_examples, num_examples, examples, loop_i, generated>>
    /\ UNCHANGED <<batch_size, beam_size, n_best, max_length, min_length, beam,
                   dec_states, i, j, out, pc, n_decode, broke, ret, call_vars, logp>>
    /\ UNCHANGED train_vars

DataNext == CallTrain \/ CallTest \/ SimulateExample \/ WriteExamples

DataSpec == DataInit /\ [][DataNext]_vars

\* the examples written so far, one file after the other
RECURSIVE WrittenExamples(_)
WrittenExamples(files) ==
    IF files = <<>> THEN <<>> ELSE Head(files).examples \o WrittenExamples(Tail(files))

\* C22: dataset generation walks the scenarios round-robin across both splits.
\* Counting from 0, the x-th example simulated overall uses the scenario of
\* index (scenario_offset + x) mod the number of scenarios; the counter is the
\* offset plus the number of examples simulated so far, through the train call
\* and the test call alike; every generate_examples call that has finished
\* wrote exactly its max_examples examples; and at the end the files hold the
\* examples in the order simulated, train before test.
C22_RoundRobinAcrossSplits ==
    gpc # "idle" =>
        /\ \A x \in 1 .. Len(generated) :
               generated[x] = (scenario_offset + (x - 1)) % n_scenarios
        /\ num_examples = scenario_offset + Len(generated)
        /\ \A w \in 1 .. Len(written) :
               Len(written[w].examples) = MaxExamplesOf(written[w].description)
        /\ gpc = "end" =>
               /\ WrittenExamples(written) = generated
               /\ Len(generated) = train_max_examples + test_max_examples
               /\ \A w \in 1 .. Len(written) :
                      written[w].description = "test" => w = Len(written)

\* both splits were generated and the test split went on where the train split
\* stopped, wrapping around the scenario list
C22_TestContinuesAfterTrain ==
    /\ gpc = "end"
    /\ scenario_offset = 2
    /\ n_scenarios = 3
    /\ written = << [description |-> "train", examples |-> <<2, 0>>],
                    [description |-> "test", examples |-> <<1, 2>>] >>

====
